---- MODULE Spec2Model ----
(***************************************************************************)
(* Model of the OpenAI-compatible LLM service adapter of mailroom:         *)
(* service.Response and service.error.                                     *)
(*                                                                         *)
(* The repository carries two versions of the adapter.  The version with   *)
(* the multi-turn expansion is called "multiturn" below, the version of    *)
(* services/llm/openai/service.go, whose JSON branch is empty and which    *)
(* appends the user message unconditionally, is called "basic".            *)
(*                                                                         *)
(* A Go string is a sequence of tokens.  A token is a record [k, v]:       *)
(*   k = "ws"   white space; v = "SP" is the space (white space for both   *)
(*              strings.TrimSpace and JSON), v = "VT" is the vertical tab  *)
(*              (white space for strings.TrimSpace only);                  *)
(*   k = "p"    one of the JSON punctuation characters { } [ ] : ,         *)
(*   k = "str"  a quoted JSON string literal whose unquoted value is v;    *)
(*   k = "lit"  the JSON literal null;                                     *)
(*   k = "ch"   any other character.                                       *)
(***************************************************************************)
EXTENDS Integers, Sequences, FiniteSets, TLC

\* ---- bounds of the model ------------------------------------------------
MaxLen == 2
MaxInstrLen == 1
MaxMsgs == 2
MaxChoices == 2

\* ---- program constants --------------------------------------------------
StatusUnauthorized == 401
StatusTooManyRequests == 429
\* the temperature literal 0.000001, in millionths
Temperature == 1

\* ---- tokens -------------------------------------------------------------
Ws(v) == [k |-> "ws", v |-> v]
P(v) == [k |-> "p", v |-> v]
Str(v) == [k |-> "str", v |-> v]
Lit(v) == [k |-> "lit", v |-> v]
Ch(v) == [k |-> "ch", v |-> v]

SP == Ws("SP")
VT == Ws("VT")

\* all sequences over S of length at most n
SeqsUpTo(S, n) == UNION {[1..m -> S] : m \in 0..n}

\* ---- package strings ----------------------------------------------------
RECURSIVE TrimLeft(_)
TrimLeft(s) ==
  IF s # <<>> /\ Head(s).k = "ws" THEN TrimLeft(Tail(s)) ELSE s

RECURSIVE TrimRight(_)
TrimRight(s) ==
  IF s # <<>> /\ s[Len(s)].k = "ws" THEN TrimRight(SubSeq(s, 1, Len(s) - 1)) ELSE s

TrimSpace(s) == TrimRight(TrimLeft(s))

HasPrefix(s, prefix) ==
  Len(s) >= Len(prefix) /\ SubSeq(s, 1, Len(prefix)) = prefix

\* ---- package encoding/json ----------------------------------------------
\* the scanner skips only JSON white space
RECURSIVE SkipWS(_, _)
SkipWS(s, i) ==
  IF i <= Len(s) /\ s[i] = SP THEN SkipWS(s, i + 1) ELSE i

Fail == [ok |-> FALSE]

RECURSIVE ParseValue(_, _)
RECURSIVE ParseMembers(_, _, _)
RECURSIVE ParseElems(_, _, _)

\* one JSON value starting at or after position i
ParseValue(s, i) ==
  LET j == SkipWS(s, i) IN
  IF j > Len(s) THEN Fail
  ELSE IF s[j].k = "str" THEN [ok |-> TRUE, v |-> [t |-> "str", s |-> s[j].v], next |-> j + 1]
  ELSE IF s[j] = Lit("null") THEN [ok |-> TRUE, v |-> [t |-> "null"], next |-> j + 1]
  ELSE IF s[j] = P("{") THEN
    LET e == SkipWS(s, j + 1) IN
    IF e <= Len(s) /\ s[e] = P("}")
    THEN [ok |-> TRUE, v |-> [t |-> "obj", members |-> <<>>], next |-> e + 1]
    ELSE ParseMembers(s, j + 1, <<>>)
  ELSE IF s[j] = P("[") THEN
    LET e == SkipWS(s, j + 1) IN
    IF e <= Len(s) /\ s[e] = P("]")
    THEN [ok |-> TRUE, v |-> [t |-> "arr", items |-> <<>>], next |-> e + 1]
    ELSE ParseElems(s, j + 1, <<>>)
  ELSE Fail

\* the members of an object, the opening brace already consumed
ParseMembers(s, i, acc) ==
  LET j == SkipWS(s, i) IN
  IF j > Len(s) \/ s[j].k # "str" THEN Fail
  ELSE
    LET c == SkipWS(s, j + 1) IN
    IF c > Len(s) \/ s[c] # P(":") THEN Fail
    ELSE
      LET r == ParseValue(s, c + 1) IN
      IF ~r.ok THEN Fail
      ELSE
        LET e == SkipWS(s, r.next)
            acc2 == Append(acc, [key |-> s[j].v, val |-> r.v])
        IN
        IF e > Len(s) THEN Fail
        ELSE IF s[e] = P("}") THEN [ok |-> TRUE, v |-> [t |-> "obj", members |-> acc2], next |-> e + 1]
        ELSE IF s[e] = P(",") THEN ParseMembers(s, e + 1, acc2)
        ELSE Fail

\* the elements of an array, the opening bracket already consumed
ParseElems(s, i, acc) ==
  LET r == ParseValue(s, i) IN
  IF ~r.ok THEN Fail
  ELSE
    LET e == SkipWS(s, r.next)
        acc2 == Append(acc, r.v)
    IN
    IF e > Len(s) THEN Fail
    ELSE IF s[e] = P("]") THEN [ok |-> TRUE, v |-> [t |-> "arr", items |-> acc2], next |-> e + 1]
    ELSE IF s[e] = P(",") THEN ParseElems(s, e + 1, acc2)
    ELSE Fail

\* checkValid: exactly one JSON value, then only JSON white space
ValidParse(s, r) == r.ok /\ SkipWS(s, r.next) > Len(s)

CheckValid(s) == ValidParse(s, ParseValue(s, 1))

\* field names match a key exactly or under case folding
FoldKey(key) ==
  IF key = "Messages" THEN "messages"
  ELSE IF key = "Role" THEN "role"
  ELSE IF key = "Content" THEN "content"
  ELSE key

\* the Go string a string literal unquotes to
Unquote(v) == IF v = "" THEN <<>> ELSE <<Ch(v)>>

\* decode the members of one element of messages into {Role, Content}
RECURSIVE DecodeFields(_, _)
DecodeFields(members, acc) ==
  IF members = <<>> THEN acc
  ELSE
    LET m == Head(members)
        f == FoldKey(m.key)
        acc2 ==
          IF f \notin {"role", "content"} \/ m.val.t = "null" THEN acc
          ELSE IF m.val.t # "str" THEN [acc EXCEPT !.err = TRUE]
          ELSE IF f = "role" THEN [acc EXCEPT !.Role = m.val.s]
          ELSE [acc EXCEPT !.Content = Unquote(m.val.s)]
    IN DecodeFields(Tail(members), acc2)

ZeroMessage == [Role |-> "", Content |-> <<>>, err |-> FALSE]

DecodeMessage(v) ==
  IF v.t = "obj" THEN DecodeFields(v.members, ZeroMessage)
  ELSE IF v.t = "null" THEN ZeroMessage
  ELSE [ZeroMessage EXCEPT !.err = TRUE]

\* decode the value of the messages key into the slice
DecodeMessages(v) ==
  IF v.t = "null" THEN [err |-> FALSE, Messages |-> <<>>]
  ELSE IF v.t # "arr" THEN [err |-> TRUE, Messages |-> <<>>]
  ELSE
    LET ds == [i \in 1..Len(v.items) |-> DecodeMessage(v.items[i])] IN
    [err |-> \E i \in 1..Len(ds) : ds[i].err,
     Messages |-> [i \in 1..Len(ds) |-> [Role |-> ds[i].Role, Content |-> ds[i].Content]]]

\* decode the members of the top-level object into inputPayload
RECURSIVE DecodePayload(_, _)
DecodePayload(members, acc) ==
  IF members = <<>> THEN acc
  ELSE
    LET m == Head(members)
        acc2 ==
          IF FoldKey(m.key) # "messages" THEN acc
          ELSE
            LET d == DecodeMessages(m.val) IN
            [err |-> acc.err \/ d.err, Messages |-> d.Messages]
    IN DecodePayload(Tail(members), acc2)

\* json.Unmarshal([]byte(input), &inputPayload): the syntax check of the whole
\* text first, then the decoding of the value into the struct
Unmarshal(s) ==
  LET r == ParseValue(s, 1) IN
  IF ~ValidParse(s, r) THEN [err |-> TRUE, Messages |-> <<>>]
  ELSE IF r.v.t = "obj" THEN DecodePayload(r.v.members, [err |-> FALSE, Messages |-> <<>>])
  ELSE IF r.v.t = "null" THEN [err |-> FALSE, Messages |-> <<>>]
  ELSE [err |-> TRUE, Messages |-> <<>>]

\* ---- the message constructors of the client library ---------------------
SystemMessage(content) == [role |-> "system", content |-> content]
AssistantMessage(content) == [role |-> "assistant", content |-> content]
UserMessage(content) == [role |-> "user", content |-> content]

\* ---- service.Response: building the messages ---------------------------
\* the switch without the assistant case
RoleMessageNoAssistant(msg) ==
  IF msg.Role = "system" THEN SystemMessage(msg.Content)
  ELSE UserMessage(msg.Content)

\* the switch on msg.Role
RoleMessage(msg) ==
  IF msg.Role = "system" THEN SystemMessage(msg.Content)
  ELSE IF msg.Role = "assistant" THEN AssistantMessage(msg.Content)
  ELSE UserMessage(msg.Content)

\* the system prompt appended whether present or not
SystemPromptAlways(instr) == <<SystemMessage(instr)>>

\* the system prompt, "if present"
SystemPrompt(instr) ==
  IF instr # <<>> THEN <<SystemMessage(instr)>> ELSE <<>>

\* the guard of the JSON branch
LooksLikeJSON(in) ==
  TrimSpace(in) # <<>> /\ HasPrefix(TrimSpace(in), <<P("{")>>)

\* the value of isJSON after the JSON branch
IsJSON(in) ==
  /\ LooksLikeJSON(in)
  /\ LET u == Unmarshal(in) IN ~u.err /\ Len(u.Messages) > 0

\* the turns appended by the range loop
ExpandMessages(msgs) == [i \in 1..Len(msgs) |-> RoleMessage(msgs[i])]

\* the fallback that sends the trimmed copy of the input
FallbackTrimmed(in, isjson) ==
  IF ~isjson /\ TrimSpace(in) # <<>> THEN <<UserMessage(TrimSpace(in))>> ELSE <<>>

\* the fallback: simple text input -> user message
Fallback(in, isjson) ==
  IF ~isjson /\ TrimSpace(in) # <<>> THEN <<UserMessage(in)>> ELSE <<>>

\* the messages of the version with multi-turn support
MultiTurnMessages(instr, in) ==
  SystemPrompt(instr)
    \o (IF IsJSON(in) THEN ExpandMessages(Unmarshal(in).Messages) ELSE <<>>)
    \o Fallback(in, IsJSON(in))

\* the messages of the basic version: the JSON branch is empty and the user
\* message is appended unconditionally
BasicMessages(instr, in) ==
  SystemPrompt(instr) \o <<UserMessage(in)>>

BuildMessages(v, instr, in) ==
  IF v = "multiturn" THEN MultiTurnMessages(instr, in) ELSE BasicMessages(instr, in)

\* the request handed to Chat.Completions.New
CompletionParams(mdl, msgs, maxTok) ==
  [Model |-> mdl, Messages |-> msgs, Temperature |-> Temperature, MaxTokens |-> maxTok]

\* ---- service.Response: the result ---------------------------------------
Nil == [nil |-> TRUE]

\* the result without the special case of zero choices for the tokens
LLMResponseTokensAlways(resp) ==
  IF Len(resp.Choices) = 0 THEN [nil |-> FALSE, Output |-> <<>>, TokensUsed |-> resp.TotalTokens]
  ELSE [nil |-> FALSE, Output |-> resp.Choices[1], TokensUsed |-> resp.TotalTokens]

LLMResponse(resp) ==
  IF Len(resp.Choices) = 0 THEN [nil |-> FALSE, Output |-> <<>>, TokensUsed |-> 0]
  ELSE [nil |-> FALSE, Output |-> resp.Choices[1], TokensUsed |-> resp.TotalTokens]

\* ---- service.error ------------------------------------------------------
\* the classification by status alone, without errors.As
ErrorCodeAnyError(e) ==
  IF e.status = StatusUnauthorized THEN "credentials"
  ELSE IF e.status = StatusTooManyRequests THEN "rate_limit"
  ELSE "unknown"

ErrorCode(e) ==
  IF e.api
  THEN IF e.status = StatusUnauthorized THEN "credentials"
       ELSE IF e.status = StatusTooManyRequests THEN "rate_limit"
       ELSE "unknown"
  ELSE "unknown"

ErrorOf(e, code, instr, in) ==
  [nil |-> FALSE, Message |-> e.text, Code |-> code, Instructions |-> instr, Input |-> in]

\* the error that reports the trimmed copies of the arguments
ServiceErrorTrimmed(e, instr, in) ==
  ErrorOf(e, ErrorCode(e), TrimSpace(instr), TrimSpace(in))

ServiceError(e, instr, in) == ErrorOf(e, ErrorCode(e), instr, in)

\* ---- the inputs of a call ------------------------------------------------
Variants == {"multiturn", "basic"}
Models == {"gpt-4o"}
MaxTokensValues == {64, 256}

InstructionsValues == SeqsUpTo({SP, Ch("x")}, MaxInstrLen)

ProseChars == {SP, VT, Ch("x"), P("{"), P("}")}
ProseInputs == SeqsUpTo(ProseChars, MaxLen)

Roles == {"system", "assistant", "user", "weird", ""}
Contents == {"A", "B"}
\* a message of every role; the user messages have either content, the
\* messages without a role the content B, the others the content A
PayloadMessages ==
  {m \in [Role : Roles, Content : Contents] :
     \/ m.Role = "user"
     \/ (m.Role = "" /\ m.Content = "B")
     \/ (m.Role \in {"system", "assistant", "weird"} /\ m.Content = "A")}

\* a message as a flow writes it; a message without a role has no role key
RenderMessage(m) ==
  <<P("{")>>
    \o (IF m.Role = "" THEN <<>> ELSE <<Str("role"), P(":"), Str(m.Role), P(",")>>)
    \o <<Str("content"), P(":"), Str(m.Content), P("}")>>

RECURSIVE RenderList(_)
RenderList(msgs) ==
  IF msgs = <<>> THEN <<>>
  ELSE RenderMessage(Head(msgs))
         \o (IF Len(msgs) > 1 THEN <<P(",")>> ELSE <<>>)
         \o RenderList(Tail(msgs))

RenderPayload(msgs) ==
  <<P("{"), Str("messages"), P(":"), P("[")>> \o RenderList(msgs) \o <<P("]"), P("}")>>

Pads(s) == {s, <<SP>> \o s \o <<SP>>, <<VT>> \o s}

PayloadInputs ==
  UNION {Pads(RenderPayload(msgs)) : msgs \in SeqsUpTo(PayloadMessages, MaxMsgs)}

OneUser == RenderMessage([Role |-> "user", Content |-> "B"])

\* payloads of another shape, broken payloads and payloads with extras
OddInputs ==
  { <<P("{"), Str("foo"), P(":"), Str("bar"), P("}")>>,
    <<P("{"), Str("messages"), P(":"), Lit("null"), P("}")>>,
    <<P("{"), Str("messages"), P(":"), Str("A"), P("}")>>,
    <<P("{"), Str("messages"), P(":"), P("["), Lit("null"), P("]"), P("}")>>,
    <<P("{"), Str("messages"), P(":"), P("["), Str("A"), P("]"), P("}")>>,
    <<P("{"), Str("Messages"), P(":"), P("[")>> \o OneUser \o <<P("]"), P("}")>>,
    <<P("{"), Str("messages"), P(":"), P("[")>> \o OneUser
        \o <<P("]"), P(","), Str("foo"), P(":"), Str("bar"), P("}")>>,
    <<P("{"), Str("messages"), P(":"), P("[")>> \o OneUser \o <<P("]"), P("}"), Ch("x")>>,
    <<P("{"), Str("messages"), P(":"), P("[")>> \o OneUser \o <<P("]")>>,
    <<P("{"), Str("messages"), P(":"), P("["), P("{"), Str("role"), P(":"), P("{"), P("}"),
      P(","), Str("content"), P(":"), Str("A"), P("}"), P("]"), P("}")>>,
    <<P("["), P("]")>>,
    <<Lit("null")>> }

InputValues == ProseInputs \cup PayloadInputs \cup OddInputs

\* ---- the outcomes of the completion call ---------------------------------
\* api: the error chain holds an *openai.Error; status: the status it carries
Errors ==
  { [api |-> TRUE, status |-> 401, text |-> "401 Unauthorized"],
    [api |-> TRUE, status |-> 429, text |-> "429 Too Many Requests"],
    [api |-> TRUE, status |-> 500, text |-> "500 Internal Server Error"],
    [api |-> FALSE, status |-> 401, text |-> "unexpected status 401"],
    [api |-> FALSE, status |-> 0, text |-> "context canceled"] }

ChoiceContents == {<<Ch("o1")>>, <<Ch("o2")>>}
TokenCounts == {0, 7}
\* a response with choices reports the tokens it used
Responses ==
  {r \in [Choices : SeqsUpTo(ChoiceContents, MaxChoices), TotalTokens : TokenCounts] :
     r.Choices # <<>> => r.TotalTokens > 0}

\* ---- the state machine ---------------------------------------------------
\* variant, model: the adapter; instructions, input, maxTokens: the arguments
\* pc: "start" before Response runs, "waiting" while Chat.Completions.New is
\*     outstanding, "done" after Response returned
\* messages, isJSON: the locals of Response
\* calls: the requests received by the completion endpoint, in order
\* outcome, resp, callErr: what Chat.Completions.New returned
\* result, err: what Response returned
VARIABLES variant, model, instructions, input, maxTokens, pc, messages, isJSON,
          calls, outcome, resp, callErr, result, err

vars == <<variant, model, instructions, input, maxTokens, pc, messages, isJSON,
          calls, outcome, resp, callErr, result, err>>
args == <<variant, model, instructions, input, maxTokens>>

NoResponse == [Choices |-> <<>>, TotalTokens |-> 0]
NoError == [api |-> FALSE, status |-> 0, text |-> ""]

Init ==
  /\ variant \in Variants
  /\ model \in Models
  /\ instructions \in InstructionsValues
  /\ input \in InputValues
  /\ maxTokens \in MaxTokensValues
  /\ pc = "start"
  /\ messages = <<>>
  /\ isJSON = FALSE
  /\ calls = <<>>
  /\ outcome = "none"
  /\ resp = NoResponse
  /\ callErr = NoError
  /\ result = Nil
  /\ err = Nil

\* Response up to and including the call of Chat.Completions.New
Call ==
  /\ pc = "start"
  /\ messages' = BuildMessages(variant, instructions, input)
  /\ isJSON' = (variant = "multiturn" /\ IsJSON(input))
  /\ calls' = Append(calls, CompletionParams(model, messages', maxTokens))
  /\ pc' = "waiting"
  /\ UNCHANGED <<args, outcome, resp, callErr, result, err>>

\* the completion call returns the response r
ReturnResponse(r) ==
  /\ pc = "waiting"
  /\ outcome' = "response"
  /\ resp' = r
  /\ result' = LLMResponse(r)
  /\ err' = Nil
  /\ pc' = "done"
  /\ UNCHANGED <<args, messages, isJSON, calls, callErr>>

\* the completion call returns the error e and Response tries once more
ReturnErrorRetry(e) ==
  /\ pc = "waiting"
  /\ outcome' = "error"
  /\ callErr' = e
  /\ result' = Nil
  /\ err' = IF Len(calls) < 2 THEN Nil ELSE ServiceError(e, instructions, input)
  /\ pc' = IF Len(calls) < 2 THEN "start" ELSE "done"
  /\ UNCHANGED <<args, messages, isJSON, calls, resp>>

\* the completion call returns the error e
ReturnError(e) ==
  /\ pc = "waiting"
  /\ outcome' = "error"
  /\ callErr' = e
  /\ result' = Nil
  /\ err' = ServiceError(e, instructions, input)
  /\ pc' = "done"
  /\ UNCHANGED <<args, messages, isJSON, calls, resp>>

Next ==
  \/ Call
  \/ \E r \in Responses : ReturnResponse(r)
  \/ \E e \in Errors : ReturnError(e)

Spec == Init /\ [][Next]_vars

\* the calls of the basic version alone
InitBasic == Init /\ variant = "basic"

SpecBasic == InitBasic /\ [][Next]_vars

\* ---- the vocabulary of the properties -----------------------------------
\* empty or all white space
Blank(s) == \A i \in 1..Len(s) : s[i].k = "ws"

\* the first character that is not white space is an opening brace
BeginsWithBrace(s) ==
  \E i \in 1..Len(s) : s[i] = P("{") /\ \A j \in 1..(i - 1) : s[j].k = "ws"

\* the input decodes to a payload with at least one message
DecodesToMessages(s) == LET u == Unmarshal(s) IN ~u.err /\ Len(u.Messages) > 0

Built == pc # "start"

\* the turn sequence the endpoint received
Sent == calls[1].Messages

\* the turns of the sequence after the optional system turn of the instructions
HasInstructionsTurn(seq) ==
  seq # <<>> /\ seq[1] = [role |-> "system", content |-> instructions]

\* the turns that follow the optional system turn of the instructions
AfterInstructions(seq) ==
  IF HasInstructionsTurn(seq) /\ instructions # <<>> THEN Tail(seq) ELSE seq

\* the role the specification gives to a decoded role string
TurnRole(role) ==
  CASE role = "system" -> "system"
    [] role = "assistant" -> "assistant"
    [] OTHER -> "user"

\* ---- C1 -----------------------------------------------------------------
\* C1: whenever the trimmed input begins with '{' and decodes to a payload
\* with a non-empty messages list, the sequence sent to the endpoint is the
\* optional system turn of the instructions followed by exactly one turn per
\* decoded message, and no user turn carrying the raw input is appended.
C1_ModesExclusive ==
  (Built /\ BeginsWithBrace(input) /\ DecodesToMessages(input)) =>
    LET d == Unmarshal(input).Messages
        rest == AfterInstructions(Sent)
    IN /\ Len(rest) = Len(d)
       /\ \A i \in 1..Len(rest) : rest[i].content = d[i].Content
       /\ (rest # <<>> => rest[Len(rest)] # [role |-> "user", content |-> input])

\* ---- C2 -----------------------------------------------------------------
\* C2: in multi-turn mode the turns appended for the input are exactly one
\* per decoded message, in order, the i-th turn carrying the i-th message's
\* content and the role system / assistant / user (user for every other role
\* string, the empty one included); no message is rejected or skipped.
C2_RoleMapping ==
  (Built /\ isJSON) =>
    LET d == Unmarshal(input).Messages
        rest == AfterInstructions(messages)
    IN /\ Len(d) > 0
       /\ Len(rest) = Len(d)
       /\ \A i \in 1..Len(d) :
            rest[i] = [role |-> TurnRole(d[i].Role), content |-> d[i].Content]

\* a two-message payload in multi-turn mode with an unrecognized and a missing role
C2_Witness ==
  /\ pc = "done"
  /\ isJSON
  /\ LET d == Unmarshal(input).Messages IN
       /\ Len(d) = 2
       /\ d[1].Role = "weird"
       /\ d[2].Role = ""
       /\ d[1].Content # d[2].Content
  /\ messages[Len(messages)].role = "user"

\* ---- C3 -----------------------------------------------------------------
\* C3: an input whose trimmed value begins with '{' but that fails to decode,
\* or decodes to zero messages, gets exactly one user turn with the original
\* input verbatim; the endpoint is still invoked and the decode failure is
\* not an error of the call.
C3_DecodeFailureFallsBack ==
  (Built /\ BeginsWithBrace(input) /\ ~DecodesToMessages(input)) =>
    /\ AfterInstructions(messages) = <<[role |-> "user", content |-> input]>>
    /\ Len(calls) = 1
    /\ Sent = messages
    /\ (pc = "done" => (err.nil <=> outcome = "response"))

\* a padded input that begins with '{', is not valid JSON, and got a response
C3_Witness ==
  /\ pc = "done"
  /\ variant = "multiturn"
  /\ BeginsWithBrace(input)
  /\ Unmarshal(input).err
  /\ input # TrimSpace(input)
  /\ outcome = "response"
  /\ err.nil
  /\ messages[Len(messages)] = [role |-> "user", content |-> input]

\* ---- C4 -----------------------------------------------------------------
\* C4 as stated: for blank instructions (empty or all white space) and
\* non-blank plain-text input the sequence is exactly one user turn with the
\* untrimmed input; no system turn for white-space-only instructions.
C4_Original ==
  (Built /\ Blank(instructions) /\ ~Blank(input) /\ ~BeginsWithBrace(input)) =>
    messages = <<[role |-> "user", content |-> input]>>

\* C4 amended: for empty instructions and non-blank plain-text input the
\* sequence is exactly one user turn with the untrimmed input; non-empty
\* white-space-only instructions do produce a system turn, which carries the
\* instructions verbatim and precedes that user turn.
C4_Amended ==
  (Built /\ Blank(instructions) /\ ~Blank(input) /\ ~BeginsWithBrace(input)) =>
    /\ instructions = <<>> => messages = <<[role |-> "user", content |-> input]>>
    /\ instructions # <<>> =>
         messages = <<[role |-> "system", content |-> instructions],
                      [role |-> "user", content |-> input]>>

\* empty instructions, a plain-text input with white space around it
C4_Witness ==
  /\ Built
  /\ variant = "multiturn"
  /\ instructions = <<>>
  /\ ~Blank(input)
  /\ ~BeginsWithBrace(input)
  /\ input # TrimSpace(input)
  /\ messages = <<[role |-> "user", content |-> input]>>

\* ---- C5 -----------------------------------------------------------------
\* C5: for non-blank instructions and blank input the sequence is exactly one
\* system turn with the instructions; no turn is appended for the input.
C5_BlankInputNoTurn ==
  (Built /\ ~Blank(instructions) /\ Blank(input)) =>
    messages = <<[role |-> "system", content |-> instructions]>>

\* ---- C6 -----------------------------------------------------------------
\* C6: the sequence built for the call is empty if and only if both the
\* instructions and the input are blank.
C6_EmptyIffBothBlank ==
  Built => (messages = <<>> <=> (Blank(instructions) /\ Blank(input)))

\* ---- C7 -----------------------------------------------------------------
\* C7: the code of the ServiceError is Credentials iff the error is a
\* provider API error with status 401, RateLimit iff it is one with status
\* 429, and Unknown in every other case.
C7_ErrorCodes ==
  (pc = "done" /\ outcome = "error") =>
    /\ err.Code = "credentials" <=> (callErr.api /\ callErr.status = 401)
    /\ err.Code = "rate_limit" <=> (callErr.api /\ callErr.status = 429)
    /\ err.Code = "unknown" <=> ~(callErr.api /\ callErr.status \in {401, 429})

\* an error that carries status 401 but is not a provider API error
C7_Witness ==
  /\ pc = "done"
  /\ outcome = "error"
  /\ ~callErr.api
  /\ callErr.status = 401
  /\ err.Code = "unknown"

\* ---- C8 -----------------------------------------------------------------
\* C8: a failed completion call returns no result and a ServiceError with
\* the error's text and the caller's instructions and input unmodified; a
\* successful one returns a result and a nil error; exactly one of result
\* and error is non-nil.
C8_ResultXorError ==
  (pc = "done") =>
    /\ result.nil # err.nil
    /\ outcome = "error" =>
         /\ result.nil
         /\ err.Message = callErr.text
         /\ err.Instructions = instructions
         /\ err.Input = input
    /\ outcome = "response" => (~result.nil /\ err.nil)

\* a failed call whose input was padded and expanded as JSON
C8_Witness ==
  /\ pc = "done"
  /\ outcome = "error"
  /\ isJSON
  /\ input # TrimSpace(input)
  /\ instructions # TrimSpace(instructions)
  /\ err.Input = input

\* ---- C9 -----------------------------------------------------------------
\* C9: a response with zero choices gives {"", 0} and a nil error, whatever
\* its total token count; otherwise the output is the first choice's content
\* and the tokens are the response's total token count.
C9_FirstChoice ==
  (pc = "done" /\ outcome = "response") =>
    /\ err.nil
    /\ ~result.nil
    /\ IF resp.Choices = <<>>
       THEN result.Output = <<>> /\ result.TokensUsed = 0
       ELSE result.Output = Head(resp.Choices) /\ result.TokensUsed = resp.TotalTokens

\* a response without choices that reports a non-zero token count
C9_Witness ==
  /\ pc = "done"
  /\ outcome = "response"
  /\ resp.Choices = <<>>
  /\ resp.TotalTokens > 0
  /\ result.TokensUsed = 0

\* ---- C10 ----------------------------------------------------------------
\* C10: the endpoint is invoked exactly once per call, after the sequence is
\* built and before anything is returned, also when the sequence is empty and
\* never again after an error; the request carries the configured model, the
\* fixed temperature and the caller's maxTokens.
C10_OneInvocation ==
  /\ pc = "start" => (calls = <<>> /\ result.nil /\ err.nil)
  /\ pc # "start" =>
       /\ Len(calls) = 1
       /\ calls[1] = [Model |-> model, Messages |-> messages,
                      Temperature |-> Temperature, MaxTokens |-> maxTokens]
  /\ (~result.nil \/ ~err.nil) => pc = "done"

\* an empty sequence was sent and the call failed with a rate limit
C10_Witness ==
  /\ pc = "done"
  /\ messages = <<>>
  /\ outcome = "error"
  /\ callErr.status = 429
  /\ Len(calls) = 1

====
